---- MODULE Spec2Model ----
(***************************************************************************)
(* Execution backbone of PyWorks: the Kahn sorter (core/topological.py),   *)
(* the GraphBuilder (core/graph_builder.py), the script that                *)
(* WorkflowExecutor synthesizes, the child process that runs it and the    *)
(* executor thread that reads its output (core/executor.py).               *)
(*                                                                         *)
(* Text is a sequence of symbols.  The symbols are single characters,      *)
(* except that a fixed piece of text the code never looks into (the marker *)
(* prefix, the summary line, a traceback) is one symbol.                   *)
(***************************************************************************)
EXTENDS Integers, Sequences, FiniteSets, TLC

\* ------------------------------------------------------------------ bounds
MaxNodes == 3
MaxConns == 2
MaxLayout == 4
MaxPrints == 1
MaxVal == 2
MaxEdges == 3
MaxDecls == 2
MaxItems == 2
MaxBuilds == 2
MaxRuns == 3

\* ------------------------------------------------------------- text helpers
MARKER == "__PYWORKS_EXEC_NODE__"
Whitespace == {" ", "\n"}

\* str.startswith("__PYWORKS_EXEC_NODE__")
StartsWithMarker(line) == Len(line) >= 1 /\ line[1] = MARKER

RECURSIVE LStrip(_)
\* str.lstrip(): leading whitespace removed
LStrip(s) ==
    IF s # <<>> /\ Head(s) \in Whitespace THEN LStrip(Tail(s)) ELSE s

RECURSIVE RStrip(_)
\* str.rstrip(): trailing whitespace removed
RStrip(s) ==
    IF s # <<>> /\ s[Len(s)] \in Whitespace
    THEN RStrip(SubSeq(s, 1, Len(s) - 1))
    ELSE s

\* str.strip()
Strip(s) == LStrip(RStrip(s))

RECURSIVE SplitFrom(_, _, _, _)
SplitFrom(s, sep, cur, acc) ==
    IF s = <<>> THEN Append(acc, cur)
    ELSE IF Head(s) = sep THEN SplitFrom(Tail(s), sep, <<>>, Append(acc, cur))
    ELSE SplitFrom(Tail(s), sep, Append(cur, Head(s)), acc)

\* str.split(sep): the list of the pieces between the separators
Split(s, sep) == SplitFrom(s, sep, <<>>, <<>>)

\* str.replace(old, new) for single characters
Replace(s, old, new) == [i \in 1..Len(s) |-> IF s[i] = old THEN new ELSE s[i]]

\* str(n) of a small number, as one symbol
Str(n) == <<"0", "1", "2", "3", "4", "5", "6", "7", "8", "9">>[n + 1]

\* ------------------------------------------------------------ plain helpers
Range(s) == {s[i] : i \in 1..Len(s)}

\* The orders in which a Python set with the elements S can be iterated.
RECURSIVE Perms(_)
Perms(S) ==
    IF S = {} THEN {<<>>}
    ELSE UNION {{<<x>> \o p : p \in Perms(S \ {x})} : x \in S}

Count(s, P(_)) == Cardinality({i \in 1..Len(s) : P(s[i])})

\* dict.get(key, default)
Get(d, key, default) == IF key \in DOMAIN d THEN d[key] ELSE default

\* ------------------------------------------------------- topological_sort
-----------------------------------------------------------------------------
\* Lines 8-12: for node in all_nodes, for child in children: in_degree[child] += 1.
\* The children of the nodes, in iteration order, one after the other.
RECURSIVE AllChildren(_, _)
AllChildren(flow_graph, order) ==
    IF order = <<>> THEN <<>>
    ELSE Get(flow_graph, Head(order), <<>>) \o AllChildren(flow_graph, Tail(order))

RECURSIVE CountIn(_, _, _)
\* in_degree after lines 4-12, given the children visited; ok is FALSE when a
\* child is no key of in_degree (in_degree[child] += 1 raises KeyError).
CountIn(in_degree, children, ok) ==
    IF children = <<>> \/ ~ok THEN [ok |-> ok, deg |-> in_degree, key |-> <<>>]
    ELSE IF Head(children) \notin DOMAIN in_degree
         THEN [ok |-> FALSE, deg |-> in_degree, key |-> Head(children)]
         ELSE CountIn([in_degree EXCEPT ![Head(children)] = @ + 1],
                      Tail(children), TRUE)

\* Lines 15-19: the zero in-degree nodes, in iteration order.
StartQueue(in_degree, order) == SelectSeq(order, LAMBDA n : in_degree[n] = 0)

\* Line 31 as a bug would have it: the child is queued on every decrement.
ReadyMutant(in_degree, child) == TRUE

\* Line 31 as a bug would have it: the child is queued when one more of its
\* incoming edges is still to be walked, and again at the last.
ReadyEarlyMutant(in_degree, child) == in_degree[child] \in {0, 1}

\* Line 31: if in_degree[child] == 0
Ready(in_degree, child) == in_degree[child] = 0

RECURSIVE Relax(_, _, _)
\* Lines 29-32: the inner loop over one node's children; [deg, queue].
Relax(children, in_degree, queue) ==
    IF children = <<>> THEN [deg |-> in_degree, queue |-> queue]
    ELSE LET child == Head(children)
             deg == [in_degree EXCEPT ![child] = @ - 1]
         IN Relax(Tail(children), deg,
                  IF Ready(deg, child) THEN Append(queue, child) ELSE queue)

RECURSIVE Kahn(_, _, _, _)
\* Lines 24-32: the while loop; each pass pops the head of the queue.
Kahn(flow_graph, in_degree, queue, sorted_order) ==
    IF queue = <<>> THEN sorted_order
    ELSE LET node == Head(queue)
             r == Relax(Get(flow_graph, node, <<>>), in_degree, Tail(queue))
         IN Kahn(flow_graph, r.deg, r.queue, Append(sorted_order, node))

\* Lines 36-37 as a bug would have it: the length check is missing.
CycleCheckMutant(sorted_order, all_nodes) == FALSE

\* Lines 36-37: if len(sorted_order) != len(all_nodes): raise ValueError
CycleCheck(sorted_order, all_nodes) == Len(sorted_order) # Cardinality(all_nodes)

\* repr() of a str key, which is what str(KeyError(key)) gives
Repr(key) == <<"'">> \o key \o <<"'">>

\* topological_sort(flow_graph, all_nodes), the set all_nodes being iterated in
\* the order `order`.  [status, message, order]: status is "ok" (the list is
\* returned), "ValueError" (cycle) or "KeyError" (an edge to a vertex outside
\* all_nodes); message is str() of the exception.
topological_sort(flow_graph, all_nodes, order) ==
    LET zero == [n \in all_nodes |-> 0]
        counted == CountIn(zero, AllChildren(flow_graph, order), TRUE)
    IN IF ~counted.ok
       THEN [status |-> "KeyError", message |-> Repr(counted.key), order |-> <<>>]
       ELSE LET sorted_order ==
                    Kahn(flow_graph, counted.deg,
                         StartQueue(counted.deg, order), <<>>)
            IN IF CycleCheck(sorted_order, all_nodes)
               THEN [status |-> "ValueError",
                     message |-> <<"Cycle detected in FLOW graph.">>,
                     order |-> <<>>]
               ELSE [status |-> "ok", message |-> <<>>, order |-> sorted_order]

\* The sorter as a bug would have it: it consumes the edges it walks, so
\* that every successor list is empty once it is done.
ArgsAfterMutant(flow_graph, all_nodes) ==
    [flow_graph |-> [n \in DOMAIN flow_graph |-> <<>>], all_nodes |-> all_nodes]

\* The arguments as topological_sort leaves them, whether it returns or
\* raises: it reads flow_graph with .get (lines 9, 28), iterates all_nodes
\* (lines 5, 8, 17) and writes only its own in_degree, queue and sorted_order.
ArgsAfter(flow_graph, all_nodes) ==
    [flow_graph |-> flow_graph, all_nodes |-> all_nodes]

\* ----------------------------------------------------------- GraphBuilder
-----------------------------------------------------------------------------
\* conn.get('source_node_id') or conn.get('source_node_key'): a connection is
\* [src, tgt, ptype], src and tgt being whichever alias the layout used.
FLOW == "FLOW"
DATA == "DATA"

\* _extract_nodes, line 22: set(nodes_dict.keys())
extract_nodes(layout) == DOMAIN layout.nodes

RECURSIVE AddFlow(_, _)
\* _build_flow_graph, lines 28-32: [ok, graph, key]; a FLOW connection whose
\* source is no key of flow_graph raises KeyError(key).
AddFlow(graph, conns) ==
    IF conns = <<>> THEN [ok |-> TRUE, graph |-> graph, key |-> <<>>]
    ELSE LET conn == Head(conns)
         IN IF conn.ptype # FLOW THEN AddFlow(graph, Tail(conns))
            ELSE IF conn.src \notin DOMAIN graph
                 THEN [ok |-> FALSE, graph |-> graph, key |-> conn.src]
                 ELSE AddFlow([graph EXCEPT ![conn.src] = Append(@, conn.tgt)],
                              Tail(conns))

\* Lines 28-32 without the test of line 29: every connection is filed as a
\* control edge, whatever its port type.
build_flow_graphMutant(all_nodes, layout) ==
    AddFlow([n \in all_nodes |-> <<>>],
            [i \in DOMAIN layout.connections |->
                [layout.connections[i] EXCEPT !.ptype = FLOW]])

build_flow_graph(all_nodes, layout) ==
    AddFlow([n \in all_nodes |-> <<>>], layout.connections)

RECURSIVE AddData(_, _)
\* _build_data_graph, lines 38-42: a DATA connection whose target is no key
\* of data_graph raises KeyError(key).
AddData(graph, conns) ==
    IF conns = <<>> THEN [ok |-> TRUE, graph |-> graph, key |-> <<>>]
    ELSE LET conn == Head(conns)
         IN IF conn.ptype # DATA THEN AddData(graph, Tail(conns))
            ELSE IF conn.tgt \notin DOMAIN graph
                 THEN [ok |-> FALSE, graph |-> graph, key |-> conn.tgt]
                 ELSE AddData([graph EXCEPT ![conn.tgt] =
                                   Append(@, <<conn.src, "output_data">>)],
                              Tail(conns))

\* Lines 35-42 as a defaultdict would behave: the target of a DATA connection
\* becomes a key of data_graph whether or not it is a node.
build_data_graphMutant(all_nodes, layout) ==
    AddData([n \in all_nodes \cup
                  {layout.connections[i].tgt : i \in DOMAIN layout.connections}
                |-> <<>>],
            layout.connections)

build_data_graph(all_nodes, layout) ==
    AddData([n \in all_nodes |-> <<>>], layout.connections)

\* Lines 52-56: the fully-qualified name of a node of the layout, new format
\* ("fqnn") or old (category and function).
FqnnOf(node_data) ==
    IF "fqnn" \in DOMAIN node_data THEN node_data.fqnn
    ELSE node_data.category \o <<".">> \o node_data.function

\* NodeRegistry.get_metadata(fqnn) is truthy; the registry is the sequence of
\* the keys of NodeRegistry.nodes, in the dict's insertion order.
Registered(registry, fqnn) == fqnn \in Range(registry)

\* Line 58 as a bug would have it: the registry is not consulted.
NodeCheckMutant(registry, node_data) == TRUE

\* Lines 52-58: the node passes _validate's loop body.
NodeCheck(registry, node_data) == Registered(registry, FqnnOf(node_data))

RECURSIVE validate(_, _, _)
\* _validate over all_nodes in iteration order: [ok, fqnn], fqnn being the name
\* the ValueError carries.
validate(order, layout, registry) ==
    IF order = <<>> THEN [ok |-> TRUE, fqnn |-> <<>>]
    ELSE LET node_data == layout.nodes[Head(order)]
         IN IF ~NodeCheck(registry, node_data)
            THEN [ok |-> FALSE, fqnn |-> FqnnOf(node_data)]
            ELSE validate(Tail(order), layout, registry)

\* Line 59 as a bug would have it: the message does not carry the name.
NotFoundMutant(fqnn) == <<"Node not found in registry.">>

\* Line 59: ValueError(f"Node '{fqnn}' not found in registry.")
NotFound(fqnn) == <<"Node '">> \o fqnn \o <<"' not found in registry.">>

NoGraph == [all_nodes |-> {}, flow_graph |-> <<>>, data_graph |-> <<>>]

\* GraphBuilder.build(): [status, message, graphs]; status is "ok", "KeyError"
\* or "ValueError", message is str() of the exception, graphs are the
\* builder's all_nodes, flow_graph and data_graph.
build(layout, registry, order) ==
    LET all_nodes == extract_nodes(layout)
        fg == build_flow_graph(all_nodes, layout)
        dg == build_data_graph(all_nodes, layout)
        va == validate(order, layout, registry)
        graphs == [all_nodes |-> all_nodes, flow_graph |-> fg.graph,
                   data_graph |-> IF fg.ok THEN dg.graph ELSE <<>>]
    IN IF ~fg.ok
       THEN [status |-> "KeyError", message |-> Repr(fg.key), graphs |-> graphs]
       ELSE IF ~dg.ok
       THEN [status |-> "KeyError", message |-> Repr(dg.key), graphs |-> graphs]
       ELSE IF ~va.ok
       THEN [status |-> "ValueError",
             message |-> NotFound(va.fqnn),
             graphs |-> graphs]
       ELSE [status |-> "ok", message |-> <<>>, graphs |-> graphs]

\* has_cycle(): [status, message]; status is "False", "True", or "KeyError"
\* when the sorter raises an exception that `except ValueError` lets through.
has_cycle(graphs, order) ==
    LET r == topological_sort(graphs.flow_graph, graphs.all_nodes, order)
    IN IF r.status = "ok" THEN [status |-> "False", message |-> <<>>]
       ELSE IF r.status = "ValueError" THEN [status |-> "True", message |-> <<>>]
       ELSE [status |-> "KeyError", message |-> r.message]

\* get_entry_nodes() as a bug would have it: every node is an entry node.
get_entry_nodesMutant(graphs, order) ==
    [status |-> "ok", message |-> <<>>, nodes |-> order]

\* get_entry_nodes(), lines 68-76: [status, message, nodes]; the in-degrees
\* are counted as the sorter counts them (in_degree[child] += 1 raises
\* KeyError for a child that is no node), and the nodes of in-degree 0 are
\* listed in the iteration order of all_nodes.
get_entry_nodes(graphs, order) ==
    LET counted == CountIn([n \in graphs.all_nodes |-> 0],
                           AllChildren(graphs.flow_graph, order), TRUE)
    IN IF ~counted.ok
       THEN [status |-> "KeyError", message |-> Repr(counted.key),
             nodes |-> <<>>]
       ELSE [status |-> "ok", message |-> <<>>,
             nodes |-> SelectSeq(order, LAMBDA n : counted.deg[n] = 0)]

\* Lines 25 and 35 as a bug would have it: the new graph is merged into the
\* one the builder already holds.
RebindMutant(old, new) ==
    [n \in (DOMAIN old) \cup (DOMAIN new) |->
        Get(old, n, <<>>) \o Get(new, n, <<>>)]

\* Lines 25 and 35: self.flow_graph = {...}, self.data_graph = {...}; the
\* attribute is bound to the new dict, whatever it held before.
Rebind(old, new) == new

\* ------------------------------------------- the synthesized script (plan)
-----------------------------------------------------------------------------
\* _build_imports, lines 61-69: one import statement per registry entry.
build_imports(registry) ==
    [i \in 1..Len(registry) |->
        LET parts == Split(registry[i], ".")
        IN [module_name |-> parts[1], func_name |-> parts[2],
            safe_name |-> Replace(registry[i], ".", "_")]]

\* nodes_dict.get(key, {}).get('fqnn'): <<>> stands for None.
FqnnKey(nodes_dict, key) ==
    IF key \in DOMAIN nodes_dict /\ "fqnn" \in DOMAIN nodes_dict[key]
    THEN nodes_dict[key].fqnn
    ELSE <<>>

\* Lines 88-93: the parents whose node data has an fqnn, one
\* inputs[parent_fqnn] = node_outputs.get(parent_fqnn, {}) statement each.
InputKeys(nodes_dict, parents) ==
    LET keys == [i \in 1..Len(parents) |-> FqnnKey(nodes_dict, parents[i][1])]
    IN SelectSeq(keys, LAMBDA k : k # <<>>)

\* Lines 79-105: the block of code generated for one node key.
NodeCode(nodes_dict, data_graph, node_key) ==
    LET fqnn == FqnnKey(nodes_dict, node_key)
    IN [node_key |-> node_key,
        fqnn |-> fqnn,
        input_keys |-> InputKeys(nodes_dict, Get(data_graph, node_key, <<>>)),
        safe_name |-> Replace(fqnn, ".", "_")]

\* _generate_execution_script: the import statements and, for every sorted
\* node whose node data has an fqnn (lines 81-83: `continue` otherwise), its
\* block, in sorted order.
generate_execution_script(registry, layout, sorted_nodes, data_graph) ==
    LET blocks == [i \in 1..Len(sorted_nodes) |->
                      NodeCode(layout.nodes, data_graph, sorted_nodes[i])]
    IN [imports |-> build_imports(registry),
        node_code |-> SelectSeq(blocks, LAMBDA b : b.fqnn # <<>>)]

\* print(text): the text and the line end, as process.stdout yields it
WriteLine(text) == text \o <<"\n">>

\* Line 85: print(f'__PYWORKS_EXEC_NODE__:{node_key}', flush=True)
MarkerLine(node_key) == WriteLine(<<MARKER, ":">> \o node_key)

\* Line 102: print(f'... Error in {fqnn}:', tb) (the traceback is one symbol)
ErrorLine(fqnn) == WriteLine(<<"Error in ">> \o fqnn \o <<":", " ", "Traceback">>)

\* Line 119: print(f"[SUMMARY] Done")
SummaryLine == WriteLine(<<"[SUMMARY] Done">>)

\* What the interpreter prints when an import statement of the script fails.
ImportErrorLine == WriteLine(<<"Traceback", ":", " ", "ImportError">>)

RECURSIVE Bind(_, _)
\* The names the import statements bind, the later statement winning:
\* safe_name -> fqnn of the function imported under it.
Bind(imports, i) ==
    IF i = 0 THEN <<>>
    ELSE LET st == imports[i]
             fn == st.module_name \o <<".">> \o st.func_name
             before == Bind(imports, i - 1)
         IN [k \in (DOMAIN before) \cup {st.safe_name} |->
                IF k = st.safe_name THEN fn ELSE before[k]]

RECURSIVE Inputs(_, _)
\* Lines 87-93 as run: inputs = {}; inputs[k] = node_outputs.get(k, {}) for
\* each input key.  The empty mapping {} is <<>>.
Inputs(input_keys, node_outputs) ==
    IF input_keys = <<>> THEN <<>>
    ELSE LET k == input_keys[Len(input_keys)]
             before == Inputs(SubSeq(input_keys, 1, Len(input_keys) - 1),
                              node_outputs)
         IN [x \in (DOMAIN before) \cup {k} |->
                IF x = k THEN Get(node_outputs, k, <<>>) ELSE before[x]]

\* d[key] = value on a dict
Put(d, key, value) ==
    [x \in (DOMAIN d) \cup {key} |-> IF x = key THEN value ELSE d[x]]

\* Line 120 as a bug would have it: the exit status ignores node_errors.
ExitCodeMutant(node_errors) == 0

\* Line 120: sys.exit(0 if len(node_errors) == 0 else 1)
ExitCode(node_errors) == IF DOMAIN node_errors = {} THEN 0 ELSE 1

\* ------------------------------------------- ast_utils and NodeRegistry
-----------------------------------------------------------------------------
\* A node file is [text, body]: text is "ok" when ast.parse accepts it,
\* "syntax" when ast.parse raises SyntaxError, "binary" when reading it as
\* UTF-8 fails; body is tree.body, the top-level declarations, each
\* [kind, name, decorator]: decorator is "Name" for @node, "Attribute" for
\* @<namespace>.node and "none" when no decorator of that name is there.
\* A dict is the sequence of its values in insertion order.

\* has_node_decorator(node, 'node'), lines 5-13
has_node_decorator(node) ==
    /\ node.kind \in {"FunctionDef", "AsyncFunctionDef", "ClassDef"}
    /\ node.decorator \in {"Name", "Attribute"}

\* nodes[fqnn] = value on a dict keyed by the values' fqnn
SetNode(nodes, value) ==
    IF \E i \in 1..Len(nodes) : nodes[i].fqnn = value.fqnn
    THEN [i \in 1..Len(nodes) |->
             IF nodes[i].fqnn = value.fqnn THEN value ELSE nodes[i]]
    ELSE Append(nodes, value)

RECURSIVE Collect(_, _, _, _)
\* Lines 29-42: the loop over tree.body, from declaration number i on.
Collect(body, category, i, nodes) ==
    IF i > Len(body) THEN nodes
    ELSE LET node == body[i]
         IN IF node.kind = "FunctionDef" /\ has_node_decorator(node)
            THEN Collect(body, category, i + 1,
                         SetNode(nodes, [fqnn |-> category \o <<".">> \o node.name,
                                         category |-> category,
                                         function_name |-> node.name,
                                         lineno |-> i]))
            ELSE Collect(body, category, i + 1, nodes)

\* Lines 23-25: except SyntaxError: print(...); return {}
OnSyntaxError == [status |-> "ok", nodes |-> <<>>]

\* extract_nodes_from_file(file_path, category): [status, nodes], status
\* being "ok" when it returns and the exception's name when it raises.
extract_nodes_from_file(file, category) ==
    IF file.text = "binary"
    THEN [status |-> "UnicodeDecodeError", nodes |-> <<>>]
    ELSE IF file.text = "syntax" THEN OnSyntaxError
    ELSE [status |-> "ok", nodes |-> Collect(file.body, category, 1, <<>>)]

RECURSIVE Merge(_, _)
\* NodeRegistry.discover, lines 26-37: self.nodes[fqnn] = metadata for each
\* extracted node.
Merge(nodes, extracted_nodes) ==
    IF extracted_nodes = <<>> THEN nodes
    ELSE Merge(SetNode(nodes, Head(extracted_nodes)), Tail(extracted_nodes))

\* Line 21 as a bug would have it: the catalog is not cleared.
ClearMutant(nodes) == nodes

\* Line 21: self.nodes.clear()
Clear(nodes) == <<>>

RECURSIVE Scan(_, _, _, _)
\* Lines 23-37: the loop over the files of nodes/, in the order glob yields
\* them; [status, nodes, log], log being what each call of
\* extract_nodes_from_file gave.
Scan(fs, order, nodes, log) ==
    IF order = <<>> THEN [status |-> "ok", nodes |-> nodes, log |-> log]
    ELSE LET category == Head(order)
             e == extract_nodes_from_file(fs[category], category)
             entry == [category |-> category, status |-> e.status,
                       count |-> Len(e.nodes)]
         IN IF e.status # "ok"
            THEN [status |-> e.status, nodes |-> nodes, log |-> Append(log, entry)]
            ELSE Scan(fs, Tail(order), Merge(nodes, e.nodes), Append(log, entry))

\* NodeRegistry.discover(project_path) on the catalog `nodes`.
discover(fs, order, nodes) == Scan(fs, order, Clear(nodes), <<>>)

\* ------------------------------------- the canvas scene and LayoutManager
-----------------------------------------------------------------------------
\* A Python object is the record of its attributes.  The scene is
\* [items, connections]; a ConnectionBridge is [source_port, target_port], a
\* port [port_type, port_direction, parent_node].  The layout file is
\* [exists, nodes, connections], nodes being the dict of the file as the
\* sequence of its entries [key, x, y] in insertion order.  An exception
\* that leaves a call is recorded as the call's status, and the session is
\* taken to go on after it.

\* hasattr(obj, name)
HasAttr(obj, name) == name \in DOMAIN obj

NoItem ==
    [fqnn |-> <<>>, category |-> <<>>, function_name |-> <<>>, x |-> 0, y |-> 0]

\* NodeItem.__init__ (ui/nodes/node_item.py lines 12-27): [ok, item]; ok is
\* FALSE when fqnn.split('.')[1] raises IndexError.  The attributes set are
\* fqnn, category, function_name and the position, centred on (x, y).
NodeItem(fqnn, x, y) ==
    LET parts == Split(fqnn, ".")
    IN IF Len(parts) < 2 THEN [ok |-> FALSE, item |-> NoItem]
       ELSE [ok |-> TRUE,
             item |-> [fqnn |-> fqnn, category |-> parts[1],
                       function_name |-> parts[2], x |-> x - 70, y |-> y - 40]]

\* CanvasGraphicsScene.addItem (ui/canvas.py lines 110-116): the item joins
\* the scene, then nodes_by_id[item.id] is set; ok is FALSE when item.id
\* raises AttributeError.
addItem(sc, item) ==
    [ok |-> HasAttr(item, "id"), scene |-> [sc EXCEPT !.items = Append(@, item)]]

\* f"{title}_{int(x)}_{int(y)}"
NodeKey(title, x, y) == title \o <<"_", ToString(x), "_", ToString(y)>>

\* d[entry.key] = entry on a dict kept as the sequence of its entries
SetEntry(d, entry) ==
    IF \E i \in 1..Len(d) : d[i].key = entry.key
    THEN [i \in 1..Len(d) |-> IF d[i].key = entry.key THEN entry ELSE d[i]]
    ELSE Append(d, entry)

\* Lines 24, 34 and 42: item.title; ok is FALSE when it raises AttributeError.
TitleOf(item) ==
    IF HasAttr(item, "title") THEN [ok |-> TRUE, title |-> item.title]
    ELSE [ok |-> FALSE, title |-> <<>>]

RECURSIVE SaveNodes(_, _)
\* save_layout, lines 22-30: [ok, nodes].
SaveNodes(items, nodes) ==
    IF items = <<>> THEN [ok |-> TRUE, nodes |-> nodes]
    ELSE LET item == Head(items)
             t == TitleOf(item)
         IN IF ~t.ok THEN [ok |-> FALSE, nodes |-> nodes]
            ELSE SaveNodes(Tail(items),
                           SetEntry(nodes, [key |-> NodeKey(t.title, item.x, item.y),
                                            x |-> item.x, y |-> item.y]))

RECURSIVE SaveConns(_, _)
\* save_layout, lines 32-58: [ok, connections].
SaveConns(conns, out) ==
    IF conns = <<>> THEN [ok |-> TRUE, connections |-> out]
    ELSE LET connection == Head(conns)
             source_node == connection.source_port.parent_node
             target_node == connection.target_port.parent_node
             st == TitleOf(source_node)
             tt == TitleOf(target_node)
         IN IF ~st.ok \/ ~tt.ok THEN [ok |-> FALSE, connections |-> out]
            ELSE SaveConns(Tail(conns), Append(out,
                   [source_node_key |-> NodeKey(st.title, source_node.x, source_node.y),
                    source_port_type |-> connection.source_port.port_type,
                    source_port_direction |-> connection.source_port.port_direction,
                    target_node_key |-> NodeKey(tt.title, target_node.x, target_node.y),
                    target_port_type |-> connection.target_port.port_type,
                    target_port_direction |-> connection.target_port.port_direction]))

\* LayoutManager.save_layout(scene, file_path): [status, file]; status is
\* "True" when the file was written and the exception's name when it raises.
save_layout(sc, file) ==
    LET n == SaveNodes(sc.items, <<>>)
        c == SaveConns(sc.connections, <<>>)
    IN IF ~n.ok \/ ~c.ok THEN [status |-> "AttributeError", file |-> file]
       ELSE [status |-> "True",
             file |-> [exists |-> TRUE, nodes |-> n.nodes,
                       connections |-> c.connections]]

RECURSIVE Join(_, _)
\* sep.join(pieces)
Join(pieces, sep) ==
    IF pieces = <<>> THEN <<>>
    ELSE IF Len(pieces) = 1 THEN pieces[1]
    ELSE pieces[1] \o <<sep>> \o Join(Tail(pieces), sep)

\* node_key.rsplit('_', 2)[0], line 85-86
TitleOfKey(node_key) ==
    LET pieces == Split(node_key, "_")
    IN IF Len(pieces) <= 3 THEN pieces[1]
       ELSE Join(SubSeq(pieces, 1, Len(pieces) - 2), "_")

RECURSIVE LoadNodes(_, _, _)
\* load_layout, lines 84-93: [status, scene, node_dict]; node_dict is the
\* sequence of [key, node].
LoadNodes(entries, sc, node_dict) ==
    IF entries = <<>> THEN [status |-> "ok", scene |-> sc, node_dict |-> node_dict]
    ELSE LET e == Head(entries)
             made == NodeItem(TitleOfKey(e.key), e.x, e.y)
             added == addItem(sc, made.item)
         IN IF ~made.ok
            THEN [status |-> "IndexError", scene |-> sc, node_dict |-> node_dict]
            ELSE IF ~added.ok
            THEN [status |-> "AttributeError", scene |-> added.scene,
                  node_dict |-> node_dict]
            ELSE LoadNodes(Tail(entries), added.scene,
                           SetEntry(node_dict, [key |-> e.key, node |-> made.item]))

\* node.ports, add_ports (node_item.py lines 119-132): a port of every type
\* and direction.
HasPort(port_type, port_direction) ==
    port_type \in {"DATA", "FLOW"} /\ port_direction \in {"IN", "OUT"}

\* ConnectionBridge.__init__ (connection_item.py lines 19-23): the ports are
\* swapped when the first one is an input.
ConnectionBridge(source_port, target_port) ==
    IF source_port.port_direction = "IN"
    THEN [source_port |-> target_port, target_port |-> source_port]
    ELSE [source_port |-> source_port, target_port |-> target_port]

RECURSIVE LoadConns(_, _, _)
\* load_layout, lines 97-132: the connections whose nodes and ports are found.
LoadConns(conns, node_dict, out) ==
    IF conns = <<>> THEN out
    ELSE LET cd == Head(conns)
             src == {i \in 1..Len(node_dict) : node_dict[i].key = cd.source_node_key}
             tgt == {i \in 1..Len(node_dict) : node_dict[i].key = cd.target_node_key}
         IN IF \/ src = {} \/ tgt = {}
               \/ ~HasPort(cd.source_port_type, cd.source_port_direction)
               \/ ~HasPort(cd.target_port_type, cd.target_port_direction)
            THEN LoadConns(Tail(conns), node_dict, out)
            ELSE LoadConns(Tail(conns), node_dict, Append(out,
                   ConnectionBridge(
                     [port_type |-> cd.source_port_type,
                      port_direction |-> cd.source_port_direction,
                      parent_node |-> node_dict[CHOOSE i \in src : TRUE].node],
                     [port_type |-> cd.target_port_type,
                      port_direction |-> cd.target_port_direction,
                      parent_node |-> node_dict[CHOOSE i \in tgt : TRUE].node])))

\* PortItem.get_node_key (ui/nodes/port.py lines 52-56): the parent node's
\* id when it has one, else None (<<>>).
get_node_key(port) ==
    IF HasAttr(port.parent_node, "id") THEN port.parent_node.id ELSE <<>>

\* PortItem.can_connect_to (ui/nodes/port.py lines 58-73)
can_connect_to(port, other_port) ==
    IF port.port_direction = other_port.port_direction THEN FALSE
    ELSE IF port.port_type # other_port.port_type THEN FALSE
    ELSE IF get_node_key(port) = get_node_key(other_port) THEN FALSE
    ELSE TRUE

RECURSIVE RemoveFirst(_, _)
\* list.remove(x) on a list that holds x: the first occurrence goes.
RemoveFirst(list, x) ==
    IF list = <<>> THEN <<>>
    ELSE IF Head(list) = x THEN Tail(list)
    ELSE <<Head(list)>> \o RemoveFirst(Tail(list), x)

\* NodeItem.itemChange on ItemSceneChange to no scene (ui/nodes/node_item.py
\* lines 107-116): the connections at the node's ports leave the scene and
\* scene.connections.
itemChange(sc, node) ==
    [sc EXCEPT !.connections =
        SelectSeq(@, LAMBDA c : /\ c.source_port.parent_node # node
                                /\ c.target_port.parent_node # node)]

\* QGraphicsScene.removeItem(item) as the scene's lists see it: a node item
\* is told of the change of scene and leaves the scene; a connection item
\* leaves the scene's graphics only.
removeItem(sc, item) ==
    IF HasAttr(item, "fqnn")
    THEN [itemChange(sc, item) EXCEPT !.items = RemoveFirst(@, item)]
    ELSE sc

RECURSIVE keyPressEvent(_, _)
\* CanvasGraphicsScene.keyPressEvent on Delete or Backspace (ui/canvas.py
\* lines 147-151), selected being selectedItems() in its order: [status,
\* scene]; status is "ValueError" when self.connections.remove(item) does not
\* find the item.
keyPressEvent(sc, selected) ==
    IF selected = <<>> THEN [status |-> "ok", scene |-> sc]
    ELSE LET item == Head(selected)
             removed == removeItem(sc, item)
         IN IF ~HasAttr(item, "source_port")
            THEN keyPressEvent(removed, Tail(selected))
            ELSE IF \A i \in DOMAIN removed.connections :
                        removed.connections[i] # item
            THEN [status |-> "ValueError", scene |-> removed]
            ELSE keyPressEvent(
                     [removed EXCEPT !.connections = RemoveFirst(@, item)],
                     Tail(selected))

\* LayoutManager.load_layout(scene, file_path): [status, scene]; status is
\* "True" or "False" when it returns and the exception's name when it raises.
load_layout(sc, file) ==
    IF ~file.exists THEN [status |-> "False", scene |-> sc]
    ELSE LET n == LoadNodes(file.nodes, sc, <<>>)
         IN IF n.status # "ok" THEN [status |-> n.status, scene |-> n.scene]
            ELSE [status |-> "True",
                  scene |-> [n.scene EXCEPT !.connections =
                                @ \o LoadConns(file.connections, n.node_dict, <<>>)]]

\* ------------------------------------------------------------------ state
-----------------------------------------------------------------------------
VARIABLES
    layout,         \* WorkflowExecutor.layout_data: [nodes, connections]
    registry,       \* the keys of NodeRegistry.nodes, in insertion order
    pc,             \* where run() is
    set_order,      \* the iteration order of the set GraphBuilder.all_nodes
    graph_builder,  \* the GraphBuilder's all_nodes, flow_graph, data_graph
    sorted_nodes,   \* run()'s sorted_nodes
    script,         \* the script handed to the child process
    events,         \* the signals emitted so far, in order
    launched,       \* subprocess.Popen has started a child
    nread,          \* lines of process.stdout the for loop has consumed
    stream_ended,   \* the for loop over process.stdout has ended at EOF
    cpc,            \* where the child process is
    names,          \* the child's imported names: safe_name -> fqnn
    cidx,           \* the child's next block of node code
    node_outputs,   \* the child's node_outputs
    node_errors,    \* the child's node_errors
    stdout,         \* the lines the child has written
    returncode,     \* <<>> while the child runs, <<code>> once it has exited
    calls,          \* the invocations of node functions, in order
    printed,        \* lines written by node functions themselves
    sort_in,        \* the sorter alone: its arguments
    sort_out,       \* the sorter alone: its result
    files,          \* the project's nodes/ directory: file stem -> file
    catalog,        \* NodeRegistry.nodes
    prior,          \* NodeRegistry.nodes as the last discover() found it
    extracted,      \* what extract_nodes_from_file gave in the last discover()
    discovered,     \* how the last discover() ended, "none" once files changed
    scene,          \* the canvas scene: its node items and its connections
    layout_file,    \* the project's .layout.json
    saved_scene,    \* the scene as it was when save_layout was last called
    layout_out,     \* the last call of the LayoutManager: [op, status]
    build_out,      \* a GraphBuilder alone: how its build() calls ended
    entry_out,      \* what get_entry_nodes() gave since the last build()
    window,         \* MainWindow: current_project_path, venv_manager,
                    \* layout_data, executor (0 is None, i the i-th run)
                    \* and the message the status bar shows
    threads         \* the WorkflowExecutor threads started, in order

exec_vars == <<pc, set_order, graph_builder, sorted_nodes, script, events,
               launched, nread, stream_ended>>
child_vars == <<cpc, names, cidx, node_outputs, node_errors, stdout,
                returncode, calls, printed>>
sort_vars == <<sort_in, sort_out>>
registry_vars == <<files, catalog, prior, extracted, discovered>>
canvas_vars == <<scene, layout_file, saved_scene, layout_out>>
aside_vars == <<build_out, entry_out, window, threads>>
env_vars == <<layout, registry, sort_vars, registry_vars, canvas_vars,
              aside_vars>>
vars == <<env_vars, exec_vars, child_vars>>

\* ------------------------------------------------------------- the inputs
IdPool == {<<"a">>, <<"b">>, <<"c", ":", "d">>}
XMake == <<"x", ".", "m">>
XUse == <<"x", ".", "u">>
XGone == <<"x", ".", "g">>
NodeDatas ==
    {[fqnn |-> XMake], [fqnn |-> XGone],
     [category |-> <<"x">>, function |-> <<"u">>]}
RegistryNodes == <<XMake, XUse>>
Conns == [src : IdPool, tgt : IdPool, ptype : {FLOW, DATA}]

\* The layouts of at most MaxNodes nodes and MaxConns connections, MaxLayout
\* of both together; a connection may name an id that is no node.
LayoutShapes ==
    {x \in (SUBSET IdPool) \X (0..MaxConns) :
        /\ Cardinality(x[1]) <= MaxNodes
        /\ Cardinality(x[1]) + x[2] <= MaxLayout}

\* What a node function may print itself: an ordinary line, or a line that
\* starts with the marker prefix and has no delimiter.
NodePrints == {WriteLine(<<"h", "i">>), WriteLine(<<MARKER>>)}
\* The mappings a node function may return.
Values == {<<v>> : v \in 1..MaxVal}

NoSort == [status |-> "none", message |-> <<>>, order |-> <<>>]

\* NodeRegistry.__init__, line 18, with no node files at hand.
RegistryInit ==
    /\ files = <<>>
    /\ catalog = <<>>
    /\ prior = <<>>
    /\ extracted = <<>>
    /\ discovered = "none"

\* CanvasGraphicsScene.__init__ (ui/canvas.py lines 100-109) in a project as
\* create_project leaves it (project_manager.py lines 66-73).
EmptyScene == [items |-> <<>>, connections |-> <<>>]
EmptyFile == [exists |-> TRUE, nodes |-> <<>>, connections |-> <<>>]
NoCall == [op |-> "none", status |-> "none"]
CanvasInit ==
    /\ scene = EmptyScene
    /\ layout_file = EmptyFile
    /\ saved_scene = EmptyScene
    /\ layout_out = NoCall

\* No GraphBuilder has been used on its own.
NoEntry == [status |-> "none", message |-> <<>>, nodes |-> <<>>]
\* MainWindow.__init__ (main.py lines 36-43): no project, no venv manager,
\* no executor.
NoProject ==
    [current_project_path |-> FALSE, venv_manager |-> FALSE,
     layout_data |-> FALSE, executor |-> 0, message |-> "none"]
AsideInit ==
    /\ build_out = <<>>
    /\ entry_out = NoEntry
    /\ window = NoProject
    /\ threads = <<>>

\* The state after WorkflowExecutor.__init__, no child process yet.
ExecutorInit ==
    /\ pc = "idle"
    /\ set_order = <<>>
    /\ graph_builder = NoGraph
    /\ sorted_nodes = <<>>
    /\ script = [imports |-> <<>>, node_code |-> <<>>]
    /\ events = <<>>
    /\ launched = FALSE
    /\ nread = 0
    /\ stream_ended = FALSE
    /\ cpc = "none"
    /\ names = <<>>
    /\ cidx = 1
    /\ node_outputs = <<>>
    /\ node_errors = <<>>
    /\ stdout = <<>>
    /\ returncode = <<>>
    /\ calls = <<>>
    /\ printed = 0

Init ==
    /\ \E x \in LayoutShapes :
        \E nd \in [x[1] -> NodeDatas] : \E cs \in [1..x[2] -> Conns] :
            layout = [nodes |-> nd, connections |-> cs]
    /\ registry = RegistryNodes
    /\ ExecutorInit
    /\ AsideInit
    /\ RegistryInit
    /\ CanvasInit
    /\ sort_in = [flow_graph |-> <<>>, all_nodes |-> {}]
    /\ sort_out = NoSort

\* ----------------------------------------------------------------- signals
Status(text) == [sig |-> "status", text |-> text]
Output(text) == [sig |-> "output", text |-> text]
ActiveNode(node_id) == [sig |-> "active", text |-> node_id]
Finished(success, text) == [sig |-> "finished", success |-> success, text |-> text]

\* Lines 54-56 as a bug would have it: the handler only reports the status.
OnExceptionMutant(e) == <<Status(<<"Error: ">> \o e)>>

\* Lines 54-56: except Exception as e: status_signal, then finished_signal.
OnException(e) == <<Status(<<"Error: ">> \o e), Finished(FALSE, e)>>

Raise(e) ==
    /\ events' = events \o OnException(e)
    /\ pc' = "done"

\* ------------------------------------------------------------------- run()
\* Line 23: status_signal.emit("Building execution graph...")
Start ==
    /\ pc = "idle"
    /\ events' = Append(events, Status(<<"Building execution graph...">>))
    /\ pc' = "build"
    /\ UNCHANGED <<env_vars, set_order, graph_builder, sorted_nodes,
                   script, launched, nread, stream_ended, child_vars>>

\* Lines 25-26: GraphBuilder(...).build(); the set all_nodes it creates has
\* some iteration order.
Build ==
    /\ pc = "build"
    /\ \E order \in Perms(DOMAIN layout.nodes) :
        LET b == build(layout, registry, order)
        IN /\ set_order' = order
           /\ graph_builder' = b.graphs
           /\ IF b.status = "ok"
              THEN pc' = "cycle" /\ UNCHANGED events
              ELSE Raise(b.message)
    /\ UNCHANGED <<env_vars, sorted_nodes, script, launched, nread,
                   stream_ended, child_vars>>

\* The GraphBuilder after its flow_graph and all_nodes have been handed to
\* topological_sort (graph_builder.py line 63, executor.py lines 32-35).
SortedBuilder(graphs) ==
    [graphs EXCEPT
        !.flow_graph = ArgsAfter(graphs.flow_graph, graphs.all_nodes).flow_graph,
        !.all_nodes = ArgsAfter(graphs.flow_graph, graphs.all_nodes).all_nodes]

\* Line 29: the message of the terminal signal on a cycle
CycleMessage == <<"Cycle detected in FLOW graph - execution canceled!">>

\* Lines 28-30: if graph_builder.has_cycle(): finished_signal, return.
CheckCycle ==
    /\ pc = "cycle"
    /\ LET c == has_cycle(graph_builder, set_order)
       IN IF c.status = "True"
          THEN /\ events' = Append(events, Finished(FALSE, CycleMessage))
               /\ pc' = "done"
          ELSE IF c.status = "False"
          THEN pc' = "sort" /\ UNCHANGED events
          ELSE Raise(c.message)
    /\ graph_builder' = SortedBuilder(graph_builder)
    /\ UNCHANGED <<env_vars, set_order, sorted_nodes,
                   script, launched, nread, stream_ended, child_vars>>

\* Lines 32-43: the sort, the status signal, the script.
Sort ==
    /\ pc = "sort"
    /\ LET r == topological_sort(graph_builder.flow_graph,
                                 graph_builder.all_nodes, set_order)
       IN IF r.status = "ok"
          THEN /\ sorted_nodes' = r.order
               /\ events' = Append(events,
                      Status(<<"Executing ", Str(Len(r.order)), " nodes...">>))
               /\ script' = generate_execution_script(registry, layout, r.order,
                                                      graph_builder.data_graph)
               /\ pc' = "launch"
          ELSE /\ Raise(r.message)
               /\ UNCHANGED <<sorted_nodes, script>>
    /\ graph_builder' = SortedBuilder(graph_builder)
    /\ UNCHANGED <<env_vars, set_order, launched, nread,
                   stream_ended, child_vars>>

\* Lines 126-134: subprocess.Popen([python, '-u', '-c', script], ...); it
\* raises when the interpreter of the project's environment cannot be started.
Launch ==
    /\ pc = "launch"
    /\ \E started \in BOOLEAN :
        IF started
        THEN /\ launched' = TRUE
             /\ cpc' = "imports"
             /\ pc' = "read"
             /\ UNCHANGED events
        ELSE /\ Raise(<<"[Errno 2] No such file or directory">>)
             /\ UNCHANGED <<launched, cpc>>
    /\ UNCHANGED <<env_vars, set_order, graph_builder, sorted_nodes,
                   script, nread, stream_ended, names, cidx, node_outputs,
                   node_errors, stdout, returncode, calls, printed>>

\* ---------------------------------------------------------- _run_subprocess
\* Line 142: node_id = line.strip().split(":")[1]
NodeId(parts) == parts[2]

\* Lines 141-146: what one line of the child's output makes the loop emit;
\* ok is FALSE when line 142 raises IndexError.
LineEvent(line) ==
    IF StartsWithMarker(line)
    THEN LET parts == Split(Strip(line), ":")
         IN IF Len(parts) < 2
            THEN [ok |-> FALSE, event |-> Output(<<>>)]
            ELSE [ok |-> TRUE, event |-> ActiveNode(NodeId(parts))]
    ELSE [ok |-> TRUE, event |-> Output(RStrip(line))]

\* The child process has ended, by sys.exit or by an uncaught error.
ChildEnded == cpc \in {"exited", "failed"}

\* Line 140: process.stdout yields a line the child has written.
CanReadLine == pc = "read" /\ nread < Len(stdout)

\* Line 140: process.stdout is at its end: the child has ended and every
\* line it wrote was read.
CanReadEOF == pc = "read" /\ ChildEnded /\ nread = Len(stdout)

\* Lines 140-146: one pass of `for line in process.stdout`.
ReadLine ==
    /\ CanReadLine
    /\ LET le == LineEvent(stdout[nread + 1])
       IN IF le.ok
          THEN /\ events' = Append(events, le.event)
               /\ nread' = nread + 1
               /\ pc' = "read"
          ELSE /\ Raise(<<"list index out of range">>)
               /\ nread' = nread + 1
    /\ UNCHANGED <<env_vars, set_order, graph_builder, sorted_nodes,
                   script, launched, stream_ended, child_vars>>

\* Line 150 as a bug would have it: any exit status counts as success.
SuccessMutant(code) == TRUE

\* Line 150: success = (process.returncode == 0)
Success(code) == code = 0

\* Lines 45-52 as a bug would have it: the terminal signal comes first.
OnCompletionMutant(success) ==
    IF success
    THEN <<Finished(TRUE, <<"Workflow completed successfully">>),
           Status(<<"Execution completed successfully">>)>>
    ELSE <<Finished(FALSE, <<"Workflow failed - check console for errors">>),
           Status(<<"Execution failed">>)>>

\* Lines 45-52: the status and the terminal signal after _run_subprocess.
OnCompletion(success) ==
    IF success
    THEN <<Status(<<"Execution completed successfully">>),
           Finished(TRUE, <<"Workflow completed successfully">>)>>
    ELSE <<Status(<<"Execution failed">>),
           Finished(FALSE, <<"Workflow failed - check console for errors">>)>>

\* Lines 140, 148-153 and 45-52: the loop ends when the child has closed its
\* output and every line was read; process.wait(); the terminal signal.
ReadEOF ==
    /\ CanReadEOF
    /\ stream_ended' = TRUE
    /\ events' = events \o OnCompletion(Success(returncode[1]))
    /\ pc' = "done"
    /\ UNCHANGED <<env_vars, set_order, graph_builder, sorted_nodes,
                   script, launched, nread, child_vars>>

\* ------------------------------------------------------ the child process
\* The import statements of the script (lines 111 and 61-69): importing a
\* node module runs it, which may fail; the interpreter then prints the
\* traceback and exits with status 1.
ChildImports ==
    /\ cpc = "imports"
    /\ \E imported \in BOOLEAN :
        IF imported
        THEN /\ names' = Bind(script.imports, Len(script.imports))
             /\ cpc' = "nodes"
             /\ UNCHANGED <<stdout, returncode>>
        ELSE /\ stdout' = Append(stdout, ImportErrorLine)
             /\ returncode' = <<1>>
             /\ cpc' = "failed"
             /\ UNCHANGED names
    /\ UNCHANGED <<env_vars, exec_vars, cidx, node_outputs, node_errors,
                   calls, printed>>

\* What one invocation of a node function does: it returns a mapping or
\* raises an Exception.
Outcomes ==
    {[raised |-> FALSE, result |-> v] : v \in Values}
        \cup {[raised |-> TRUE, result |-> <<>>]}

\* The except clause as a bug would have it: a failure ends the plan.
NextBlockMutant(idx, raised, last) == IF raised THEN last + 1 ELSE idx + 1

\* Lines 98-103: a failure is recorded and the next block runs.
NextBlock(idx, raised, last) == idx + 1

\* Line 98: node_outputs['{fqnn}'] = result
OutputKey(block) == block.fqnn

\* Line 85 as a bug would have it: no marker is written ahead of the call.
BeforeCallMutant(block) == <<>>

\* Line 85: what a block writes, flushed, ahead of calling its node function.
BeforeCall(block) == <<MarkerLine(block.node_key)>>

\* Lines 85-103: one block of node code: the marker, the inputs, the call
\* of the function bound to safe_name, the result or the error.
ChildNode ==
    /\ cpc = "nodes"
    /\ cidx <= Len(script.node_code)
    /\ LET block == script.node_code[cidx]
           inputs == Inputs(block.input_keys, node_outputs)
           bound == block.safe_name \in DOMAIN names
       IN \E out \in IF bound THEN Outcomes
                     ELSE {[raised |-> TRUE, result |-> <<>>]} :
          \E lines \in {<<>>} \cup
                       {<<l>> : l \in IF bound /\ printed < MaxPrints
                                      THEN NodePrints ELSE {}} :
            /\ stdout' = stdout \o BeforeCall(block) \o lines
                         \o (IF out.raised THEN <<ErrorLine(block.fqnn)>>
                             ELSE <<>>)
            /\ printed' = printed + Len(lines)
            /\ calls' = Append(calls,
                   [node_key |-> block.node_key,
                    at |-> Len(stdout \o BeforeCall(block)),
                    func |-> Get(names, block.safe_name, <<>>),
                    inputs |-> inputs,
                    raised |-> out.raised,
                    result |-> out.result])
            /\ node_outputs' = IF out.raised THEN node_outputs
                               ELSE Put(node_outputs, OutputKey(block), out.result)
            /\ node_errors' = IF out.raised
                              THEN Put(node_errors, block.fqnn, "error")
                              ELSE node_errors
            /\ cidx' = NextBlock(cidx, out.raised, Len(script.node_code))
    /\ UNCHANGED <<env_vars, exec_vars, cpc, names, returncode>>

\* Lines 119-120: the summary line and sys.exit.
ChildExit ==
    /\ cpc = "nodes"
    /\ cidx > Len(script.node_code)
    /\ stdout' = Append(stdout, SummaryLine)
    /\ returncode' = <<ExitCode(node_errors)>>
    /\ cpc' = "exited"
    /\ UNCHANGED <<env_vars, exec_vars, names, cidx, node_outputs,
                   node_errors, calls, printed>>

Next ==
    \/ Start
    \/ Build
    \/ CheckCycle
    \/ Sort
    \/ Launch
    \/ ReadLine
    \/ ReadEOF
    \/ ChildImports
    \/ ChildNode
    \/ ChildExit

Spec == Init /\ [][Next]_vars

\* ---------------------------------------------------- the sorter alone
-----------------------------------------------------------------------------
\* topological_sort applied to the control graphs that _build_flow_graph can
\* produce over up to four vertices.
SortPool == IdPool \cup {<<"e">>}

\* The graph _build_flow_graph makes of the FLOW connections es over the
\* vertices V.
FlowGraphOf(V, es) == build_flow_graph(V, [connections |-> es]).graph

EmptyLayout == [nodes |-> <<>>, connections |-> <<>>]

SortInit ==
    /\ \E V \in SUBSET SortPool : \E n \in 0..MaxEdges :
        \E es \in [1..n -> [src : V, tgt : SortPool, ptype : {FLOW}]] :
            sort_in = [flow_graph |-> FlowGraphOf(V, es), all_nodes |-> V]
    /\ sort_out = NoSort
    /\ layout = EmptyLayout
    /\ registry = RegistryNodes
    /\ ExecutorInit
    /\ AsideInit
    /\ RegistryInit
    /\ CanvasInit

DoSort ==
    /\ sort_out.status = "none"
    /\ \E order \in Perms(sort_in.all_nodes) :
        sort_out' = topological_sort(sort_in.flow_graph, sort_in.all_nodes, order)
    /\ sort_in' = ArgsAfter(sort_in.flow_graph, sort_in.all_nodes)
    /\ UNCHANGED <<layout, aside_vars, registry, registry_vars, canvas_vars,
                   exec_vars, child_vars>>

NextSort == DoSort

SpecSort == SortInit /\ [][NextSort]_vars

\* ---------------------------------------------------- a GraphBuilder alone
-----------------------------------------------------------------------------
\* build() on one GraphBuilder, again and again over the layout it was
\* constructed with.  The set all_nodes, rebuilt from the same keys in the
\* same interpreter, iterates in the same order each time.  A call that
\* raises in _build_flow_graph leaves data_graph as it was.
BuildCall ==
    /\ Len(build_out) < MaxBuilds
    /\ \E order \in (IF build_out = <<>> THEN Perms(DOMAIN layout.nodes)
                                         ELSE {set_order}) :
        LET b == build(layout, registry, order)
            fg == build_flow_graph(extract_nodes(layout), layout)
            after == [all_nodes |-> b.graphs.all_nodes,
                      flow_graph |-> Rebind(graph_builder.flow_graph,
                                            b.graphs.flow_graph),
                      data_graph |->
                          IF fg.ok THEN Rebind(graph_builder.data_graph,
                                               b.graphs.data_graph)
                          ELSE graph_builder.data_graph]
        IN /\ set_order' = order
           /\ graph_builder' = after
           /\ build_out' = Append(build_out,
                                  [status |-> b.status, graphs |-> after])
    /\ entry_out' = NoEntry
    /\ UNCHANGED <<window, threads, layout, registry, sort_vars, registry_vars, canvas_vars,
                   pc, sorted_nodes, script, events, launched,
                   nread, stream_ended, child_vars>>

\* get_entry_nodes() on the builder as it is.
EntryNodes ==
    /\ entry_out' = get_entry_nodes(graph_builder, set_order)
    /\ UNCHANGED <<window, threads, layout, registry, sort_vars, registry_vars, canvas_vars,
                   build_out, exec_vars, child_vars>>

NextBuilder == BuildCall \/ EntryNodes

SpecBuilder == Init /\ [][NextBuilder]_vars

\* ------------------------------------------- the main window's Run action
-----------------------------------------------------------------------------
\* A thread is "running" until run() emits its terminal signal, "True" or
\* "False" (the signal's success flag) while the signal waits in the main
\* thread's event queue, and "handled" once _on_execution_finished has run
\* for it.
WindowAloneInit ==
    /\ layout = EmptyLayout
    /\ registry = RegistryNodes
    /\ ExecutorInit
    /\ AsideInit
    /\ RegistryInit
    /\ CanvasInit
    /\ sort_in = [flow_graph |-> <<>>, all_nodes |-> {}]
    /\ sort_out = NoSort

\* new_file / open_file (main.py lines 132-162): set_current_project_path,
\* then the venv manager; when set_current_project_path raises (load_layout
\* on a layout that holds nodes) the venv manager stays what it was.
OpenProject ==
    /\ \E loaded \in BOOLEAN :
        window' = [window EXCEPT !.current_project_path = TRUE,
                                 !.venv_manager = @ \/ loaded]
    /\ UNCHANGED <<threads, build_out, entry_out, layout, registry, sort_vars,
                   registry_vars, canvas_vars, exec_vars, child_vars>>

\* The Run action: run() (lines 313-316) and run_workflow() (lines 318-336).
\* Nothing but the project path and the venv manager is tested before the
\* new WorkflowExecutor is bound to self.executor and started.
RunRequest ==
    /\ Len(threads) < MaxRuns
    /\ IF ~window.current_project_path
       THEN UNCHANGED <<window, threads>>
       ELSE IF ~window.venv_manager
       THEN /\ window' = [window EXCEPT !.layout_data = TRUE]
            /\ UNCHANGED threads
       ELSE /\ window' = [window EXCEPT !.layout_data = TRUE,
                                        !.executor = Len(threads) + 1]
            /\ threads' = Append(threads, "running")
    /\ UNCHANGED <<build_out, entry_out, layout, registry, sort_vars,
                   registry_vars, canvas_vars, exec_vars, child_vars>>

\* WorkflowExecutor.run() of the i-th thread emits finished_signal
\* (executor.py lines 29, 49, 52, 56); the slot is queued for the main thread.
EmitFinished ==
    /\ \E i \in DOMAIN threads : \E success \in {"True", "False"} :
        /\ threads[i] = "running"
        /\ threads' = [threads EXCEPT ![i] = success]
    /\ UNCHANGED <<window, build_out, entry_out, layout, registry, sort_vars,
                   registry_vars, canvas_vars, exec_vars, child_vars>>

\* _on_execution_finished (main.py lines 338-341), for the i-th thread's
\* signal: the message is shown and self.executor = None.
OnExecutionFinished ==
    /\ \E i \in DOMAIN threads :
        /\ threads[i] \in {"True", "False"}
        /\ threads' = [threads EXCEPT ![i] = "handled"]
        /\ window' = [window EXCEPT !.executor = 0, !.message = threads[i]]
    /\ UNCHANGED <<build_out, entry_out, layout, registry, sort_vars,
                   registry_vars, canvas_vars, exec_vars, child_vars>>

NextWindow ==
    \/ OpenProject
    \/ RunRequest
    \/ EmitFinished
    \/ OnExecutionFinished

SpecWindow == WindowAloneInit /\ [][NextWindow]_vars

\* ------------------------------------------- run() over other registries
-----------------------------------------------------------------------------
\* Names a node file (its stem is the category) or a node function can have.
AliasParts == {<<"p">>, <<"p", "_", "q">>, <<"q", "_", "p">>}

\* The fully-qualified names discover() forms of them: f'{category}.{name}'.
AliasFqnns == {c \o <<".">> \o f : c \in AliasParts, f \in AliasParts}

\* run() on a layout with one instance of each of two registered types, the
\* registry holding these two types, in either insertion order.
AliasInit ==
    /\ \E t1 \in AliasFqnns : \E t2 \in AliasFqnns \ {t1} :
        /\ registry = <<t1, t2>>
        /\ \E nd \in [{<<"a">>, <<"b">>} -> {[fqnn |-> t1], [fqnn |-> t2]}] :
               layout = [nodes |-> nd, connections |-> <<>>]
    /\ ExecutorInit
    /\ AsideInit
    /\ RegistryInit
    /\ CanvasInit
    /\ sort_in = [flow_graph |-> <<>>, all_nodes |-> {}]
    /\ sort_out = NoSort

SpecAlias == AliasInit /\ [][Next]_vars

\* ------------------------------------------------- the registry alone
-----------------------------------------------------------------------------
\* The node files a project may hold: up to MaxDecls top-level declarations
\* each, or text that does not parse, or bytes that are no UTF-8.
Stems == {<<"p">>, <<"q">>}
Decls ==
    {[kind |-> "FunctionDef", name |-> <<"f">>, decorator |-> "Name"],
     [kind |-> "FunctionDef", name |-> <<"g">>, decorator |-> "Attribute"],
     [kind |-> "FunctionDef", name |-> <<"g">>, decorator |-> "none"],
     [kind |-> "ClassDef", name |-> <<"f">>, decorator |-> "Name"]}
Bodies == UNION {[1..n -> Decls] : n \in 0..MaxDecls}
NodeFiles ==
    {[text |-> "ok", body |-> b] : b \in Bodies}
        \cup {[text |-> "syntax", body |-> <<>>], [text |-> "binary", body |-> <<>>]}

\* The keys of the catalog, which is what the executor reads of it.
Keys(nodes) == [i \in 1..Len(nodes) |-> nodes[i].fqnn]

RegistryAloneInit ==
    /\ \E S \in SUBSET Stems : files \in [S -> NodeFiles]
    /\ catalog = <<>>
    /\ prior = <<>>
    /\ extracted = <<>>
    /\ discovered = "none"
    /\ registry = <<>>
    /\ layout = EmptyLayout
    /\ ExecutorInit
    /\ AsideInit
    /\ CanvasInit
    /\ sort_in = [flow_graph |-> <<>>, all_nodes |-> {}]
    /\ sort_out = NoSort

\* main.py line 293: self.node_registry.discover(project_path, python_path);
\* glob yields the files in some order.
Discover ==
    /\ \E order \in Perms(DOMAIN files) :
        LET r == discover(files, order, catalog)
        IN /\ catalog' = r.nodes
           /\ extracted' = r.log
           /\ discovered' = r.status
           /\ registry' = Keys(r.nodes)
    /\ prior' = catalog
    /\ UNCHANGED <<files, layout, aside_vars, sort_vars, canvas_vars, exec_vars, child_vars>>

\* The user writes, replaces or deletes one node file.
EditFile ==
    /\ \E stem \in Stems :
        \/ /\ stem \in DOMAIN files
           /\ files' = [k \in (DOMAIN files) \ {stem} |-> files[k]]
        \/ \E f \in NodeFiles :
              files' = [k \in (DOMAIN files) \cup {stem} |->
                           IF k = stem THEN f ELSE files[k]]
    /\ files' # files
    /\ discovered' = "none"
    /\ prior' = <<>>
    /\ UNCHANGED <<catalog, extracted, registry, layout, aside_vars, sort_vars, canvas_vars,
                   exec_vars, child_vars>>

NextRegistry ==
    \/ Discover
    \/ EditFile

SpecRegistry == RegistryAloneInit /\ [][NextRegistry]_vars

\* --------------------------------------------------- the canvas alone
-----------------------------------------------------------------------------
\* The layout files a project may hold when it is opened: up to two node
\* entries and up to one connection entry.
FileEntries ==
    {[key |-> NodeKey(t, x, 0), x |-> x, y |-> 0] :
        t \in {XMake, <<"m">>}, x \in {0, 20}}
FileConns ==
    {[source_node_key |-> a.key, source_port_type |-> t,
      source_port_direction |-> "OUT", target_node_key |-> b.key,
      target_port_type |-> t, target_port_direction |-> "IN"] :
        a \in FileEntries, b \in FileEntries, t \in {"FLOW", "DATA"}}
LayoutFiles ==
    {[exists |-> TRUE, nodes |-> n, connections |-> c] :
        n \in {<<>>} \cup {<<e>> : e \in FileEntries}
                \cup {<<p[1], p[2]>> :
                          p \in {q \in FileEntries \X FileEntries : q[1] # q[2]}},
        c \in {<<>>} \cup {<<x>> : x \in {y \in FileConns :
                                    y.source_node_key # y.target_node_key}}}

CanvasAloneInit ==
    /\ scene = EmptyScene
    /\ layout_file \in {f \in LayoutFiles :
           \A i \in 1..Len(f.connections) :
               {f.connections[i].source_node_key, f.connections[i].target_node_key}
                   \subseteq {f.nodes[j].key : j \in 1..Len(f.nodes)}}
    /\ saved_scene = EmptyScene
    /\ layout_out = NoCall
    /\ layout = EmptyLayout
    /\ registry = RegistryNodes
    /\ ExecutorInit
    /\ AsideInit
    /\ RegistryInit
    /\ sort_in = [flow_graph |-> <<>>, all_nodes |-> {}]
    /\ sort_out = NoSort

\* CanvasGraphicsView.dropEvent (ui/canvas.py lines 85-94): a node of the
\* node list is dropped on the canvas, at a point of the grid.
Drop ==
    /\ Len(scene.items) < MaxItems
    /\ \E node_name \in Range(registry) : \E x \in {0, 20} :
        LET made == NodeItem(node_name, x, 0)
            added == addItem(scene, made.item)
        IN /\ made.ok
           /\ scene' = added.scene
           /\ layout_out' = [op |-> "drop",
                             status |-> IF added.ok THEN "ok" ELSE "AttributeError"]
    /\ UNCHANGED <<layout_file, saved_scene, layout, aside_vars, registry, sort_vars,
                   registry_vars, exec_vars, child_vars>>

\* MainWindow.save (main.py lines 196-200): save_layout on the scene.
Save ==
    /\ LET r == save_layout(scene, layout_file)
       IN /\ layout_file' = r.file
          /\ layout_out' = [op |-> "save", status |-> r.status]
    /\ saved_scene' = scene
    /\ UNCHANGED <<scene, layout, aside_vars, registry, sort_vars, registry_vars,
                   exec_vars, child_vars>>

\* MainWindow.open_file (main.py lines 157-159 and 215-217): the scene is
\* cleared and the project's layout file is loaded into it; the call is a
\* "reload" when it follows a save of this session.
Open ==
    /\ layout_file.exists
    /\ LET r == load_layout(EmptyScene, layout_file)
       IN /\ scene' = r.scene
          /\ layout_out' = [op |-> IF layout_out.op = "save" THEN "reload"
                                   ELSE "load",
                            status |-> r.status]
    /\ UNCHANGED <<layout_file, saved_scene, layout, aside_vars, registry, sort_vars,
                   registry_vars, exec_vars, child_vars>>

\* mousePressEvent on a port of one node and mouseReleaseEvent on a port of
\* another (ui/canvas.py lines 155-163 and 191-214): the connection is made
\* when can_connect_to allows it.
Connect ==
    /\ \E i, j \in DOMAIN scene.items :
        \E t \in {"DATA", "FLOW"} : \E d \in {"IN", "OUT"} :
            LET start == [port_type |-> t, port_direction |-> d,
                          parent_node |-> scene.items[i]]
                target == [port_type |-> t,
                           port_direction |-> IF d = "IN" THEN "OUT" ELSE "IN",
                           parent_node |-> scene.items[j]]
            IN /\ i # j
               /\ IF can_connect_to(start, target)
                  THEN /\ scene' = [scene EXCEPT !.connections =
                                       Append(@, ConnectionBridge(start, target))]
                       /\ layout_out' = [op |-> "connect", status |-> "ok"]
                  ELSE /\ scene' = scene
                       /\ layout_out' = [op |-> "connect", status |-> "refused"]
    /\ UNCHANGED <<layout_file, saved_scene, layout, aside_vars, registry, sort_vars,
                   registry_vars, exec_vars, child_vars>>

\* The Delete key with some items selected, selectedItems() giving them in
\* some order (ui/canvas.py lines 145-151).
Delete ==
    /\ \E S \in SUBSET (Range(scene.items) \cup Range(scene.connections)) :
        \E selected \in Perms(S) :
            LET r == keyPressEvent(scene, selected)
            IN /\ S # {}
               /\ scene' = r.scene
               /\ layout_out' = [op |-> "delete", status |-> r.status]
    /\ UNCHANGED <<layout_file, saved_scene, layout, aside_vars, registry, sort_vars,
                   registry_vars, exec_vars, child_vars>>

NextCanvas ==
    \/ Drop
    \/ Save
    \/ Open
    \/ Connect
    \/ Delete

SpecCanvas == CanvasAloneInit /\ [][NextCanvas]_vars

\* ------------------------------------------------------- graph vocabulary
\* The edges u -> v of a graph given as vertex -> list of successors.
Edges(g) ==
    UNION {{<<u, g[u][i]>> : i \in 1..Len(g[u])} : u \in DOMAIN g}

RECURSIVE Closure(_, _)
\* The pairs joined by a path of at least one and at most n + 1 edges of R.
Closure(R, n) ==
    IF n = 0 THEN R
    ELSE LET C == Closure(R, n - 1)
         IN C \cup {<<p[1][1], p[2][2]>> :
                        p \in {q \in C \X R : q[1][2] = q[2][1]}}

\* Some vertex lies on a cycle of the edges R.
Cyclic(R) == \E e \in Closure(R, Cardinality(R)) : e[1] = e[2]

\* The position of x in a sequence without repetition.
Pos(seq, x) == CHOOSE i \in 1..Len(seq) : seq[i] = x

\* C1: for every acyclic control graph whose edges stay within all_nodes, the
\* sorter returns a list holding every vertex of all_nodes exactly once, with
\* u before v for every edge u -> v.
C1_AcyclicSorted ==
    LET g == sort_in.flow_graph
        V == sort_in.all_nodes
    IN (/\ sort_out.status # "none"
        /\ \A e \in Edges(g) : e[2] \in V
        /\ ~Cyclic(Edges(g)))
       => /\ sort_out.status = "ok"
          /\ Len(sort_out.order) = Cardinality(V)
          /\ Range(sort_out.order) = V
          /\ \A e \in Edges(g) : Pos(sort_out.order, e[1]) < Pos(sort_out.order, e[2])

\* C1 witness: a list was returned for four vertices joined by three edges,
\* one vertex having two predecessors.
C1_Witness ==
    /\ sort_out.status = "ok"
    /\ Cardinality(sort_in.all_nodes) = 4
    /\ Cardinality(Edges(sort_in.flow_graph)) = 3
    /\ \E v \in sort_in.all_nodes :
        Cardinality({e \in Edges(sort_in.flow_graph) : e[2] = v}) = 2

\* C2: for every control graph with a cycle the sorter fails, with the cycle
\* error when the edges stay within all_nodes; and a list it returns is never
\* shorter than the vertex count.
C2_CyclicFails ==
    LET g == sort_in.flow_graph
        V == sort_in.all_nodes
    IN /\ (sort_out.status # "none" /\ Cyclic(Edges(g)))
          => /\ sort_out.status # "ok"
             /\ (\A e \in Edges(g) : e[2] \in V) => sort_out.status = "ValueError"
       /\ sort_out.status = "ok" => Len(sort_out.order) = Cardinality(V)

\* C2 witness: the cycle error on a cycle through several vertices, some
\* vertex being outside the cycle.
C2_Witness ==
    /\ sort_out.status = "ValueError"
    /\ \A e \in Edges(sort_in.flow_graph) : e[1] # e[2]
    /\ Cardinality(sort_in.all_nodes) > Cardinality(Edges(sort_in.flow_graph))

\* ---------------------------------------------------- run(): vocabulary
-----------------------------------------------------------------------------
\* The terminal signals emitted so far.
FinishedEvents == SelectSeq(events, LAMBDA e : e.sig = "finished")

\* The signals that lines of the child's output gave rise to.
LineEvents == SelectSeq(events, LAMBDA e : e.sig \in {"output", "active"})

\* The control edges the layout's FLOW connections describe.
LayoutFlowEdges ==
    {<<c.src, c.tgt>> : c \in {d \in Range(layout.connections) : d.ptype = FLOW}}

\* Some instance of the layout has a type the registry does not hold.
LayoutHasUnregistered ==
    \E k \in DOMAIN layout.nodes :
        LET nd == layout.nodes[k]
            type == IF "fqnn" \in DOMAIN nd THEN nd.fqnn
                    ELSE nd.category \o <<".">> \o nd.function
        IN type \notin Range(registry)

\* Some invocation of a node function raised.
SomeCallRaised == \E i \in 1..Len(calls) : calls[i].raised

\* C3: when the layout's control graph has a cycle or an instance's type is
\* not registered, the run never launches the child (no process, no output
\* signal, no active-node signal) and ends with one terminal signal, whose
\* success flag is false and whose message is not empty.
C3_BuildErrorsAbort ==
    (Cyclic(LayoutFlowEdges) \/ LayoutHasUnregistered)
    => /\ ~launched
       /\ cpc = "none"
       /\ LineEvents = <<>>
       /\ Len(FinishedEvents) <= 1
       /\ pc = "done" => /\ Len(FinishedEvents) = 1
                         /\ ~FinishedEvents[1].success
                         /\ FinishedEvents[1].text # <<>>
                         /\ events[Len(events)].sig = "finished"

\* C3 witness: a run over a layout of registered instances whose two FLOW
\* connections form the cycle a -> b -> a has ended with the cycle message.
C3_Witness ==
    /\ pc = "done"
    /\ ~LayoutHasUnregistered
    /\ Cyclic(LayoutFlowEdges) /\ \A e \in LayoutFlowEdges : e[1] # e[2]
    /\ FinishedEvents # <<>> /\ FinishedEvents[1].text = CycleMessage

\* C4: every run() emits exactly one terminal signal: none before the run is
\* over, one once it is over, and a run that is not over can always go on
\* (run() is at one of its own steps, or a line or the end of the child's
\* output is there to read, or the child is still running).
C4_OneTerminalEvent ==
    /\ Len(FinishedEvents) <= 1
    /\ pc = "done" <=> Len(FinishedEvents) = 1
    /\ pc # "done" =>
        \/ pc \in {"idle", "build", "cycle", "sort", "launch"}
        \/ CanReadLine
        \/ CanReadEOF
        \/ cpc \in {"imports", "nodes"}

\* C4 witness: a run whose child was launched and failed has ended.
C4_Witness ==
    /\ pc = "done"
    /\ stream_ended
    /\ returncode = <<1>>
    /\ SomeCallRaised

\* C5: a node function that raises does not keep the later blocks of the plan
\* from running (at the child's exit every block has been invoked, in order),
\* and once a node has recorded an error the exit status is not 0 and the
\* terminal signal's success flag is false.
C5_FailureIsolation ==
    /\ cpc = "nodes" => Len(calls) = cidx - 1
    /\ cpc = "exited" =>
        /\ Len(calls) = Len(script.node_code)
        /\ \A i \in 1..Len(calls) : calls[i].node_key = script.node_code[i].node_key
    /\ SomeCallRaised => DOMAIN node_errors # {}
    /\ (DOMAIN node_errors # {} /\ cpc = "exited") => returncode # <<0>>
    /\ (DOMAIN node_errors # {} /\ pc = "done") => ~FinishedEvents[1].success

\* C5 witness: the first of three blocks raised, the two after it returned,
\* and the run ended.
C5_Witness ==
    /\ pc = "done"
    /\ stream_ended
    /\ Len(calls) = 3
    /\ calls[1].raised /\ ~calls[2].raised /\ ~calls[3].raised

\* The instance A is a data-predecessor of the instance B.
DataPredecessor(A, B) ==
    \E c \in Range(layout.connections) :
        c.ptype = DATA /\ c.src = A /\ c.tgt = B

\* C6 as stated: every invoked B whose data-predecessor A was invoked before
\* it and returned is handed, under the key of A's fully-qualified name, the
\* mapping that A's own invocation returned.
C6_InputsFromOwnProducer ==
    \A j \in 1..Len(calls) : \A i \in 1..(j - 1) :
        (DataPredecessor(calls[i].node_key, calls[j].node_key) /\ ~calls[i].raised)
        => LET key == layout.nodes[calls[i].node_key].fqnn
           IN /\ key \in DOMAIN calls[j].inputs
              /\ calls[j].inputs[key] = calls[i].result

\* C7 as stated: the exit status is 0 exactly when no node recorded an error,
\* and a status other than 0 implies that a node function failed.
C7_ExitCodeIffNoNodeError ==
    ChildEnded =>
        /\ returncode = <<0>> <=> DOMAIN node_errors = {}
        /\ returncode # <<0>> => SomeCallRaised

\* C7 amended: the exit status is 0 exactly when the script ran to its end
\* and no node recorded an error; a status other than 0 implies that a node
\* function failed or that the script stopped at its import statements; and
\* a node has recorded an error exactly when a node function raised.
C7_ExitCodeAmended ==
    /\ ChildEnded =>
        /\ returncode = <<0>> <=> (cpc = "exited" /\ DOMAIN node_errors = {})
        /\ returncode # <<0>> => (SomeCallRaised \/ cpc = "failed")
    /\ ~ChildEnded => returncode = <<>>
    /\ SomeCallRaised <=> DOMAIN node_errors # {}

\* C7 witness: the script ran to its end after a node function raised and
\* the child exited with status 1.
C7_Witness ==
    /\ cpc = "exited"
    /\ returncode = <<1>>
    /\ \E i \in 1..Len(calls) : calls[i].raised
    /\ \E i \in 1..Len(calls) : ~calls[i].raised

\* C8: once the child was launched and the loop over its output has ended,
\* the terminal signal's success flag is true iff the exit status is 0.
C8_SuccessIffExitZero ==
    stream_ended =>
        /\ launched /\ ChildEnded /\ pc = "done"
        /\ Len(FinishedEvents) = 1
        /\ FinishedEvents[1].success <=> returncode = <<0>>

\* C8 witness: a run has ended after a child that invoked node functions
\* exited with status 0.
C8_Witness ==
    /\ stream_ended
    /\ returncode = <<0>>
    /\ Len(calls) >= 2

\* C9 as stated: the lines read so far gave one signal each, in order: the
\* marker line written for an instance id an active-node signal carrying
\* that whole id, a line without the marker prefix an output signal.
C9_OneEventPerLine ==
    /\ Len(LineEvents) = nread
    /\ \A i \in 1..nread :
        /\ i <= Len(LineEvents)
        /\ \A k \in IdPool :
            stdout[i] = MarkerLine(k) => LineEvents[i] = ActiveNode(k)
        /\ ~StartsWithMarker(stdout[i]) => LineEvents[i] = Output(RStrip(stdout[i]))

\* A line that starts with the marker prefix and has no delimiter.
Unparseable(line) == StartsWithMarker(line) /\ ":" \notin Range(line)

\* C10 as stated: an unparseable marker line gives a plain output signal,
\* the loop goes on reading, and the terminal signal reflects the child's
\* exit status.
C10_UnparseableIsOutput ==
    \A i \in 1..nread :
        Unparseable(stdout[i])
        => /\ i <= Len(LineEvents)
           /\ LineEvents[i].sig = "output"
           /\ pc = "done" => /\ stream_ended
                             /\ FinishedEvents[1].success <=> returncode = <<0>>

\* The marker lines of the plan among the lines written so far.
PlanMarkers ==
    SelectSeq(stdout, LAMBDA l : l \in {MarkerLine(k) : k \in IdPool})

\* C11: every invocation is immediately preceded by the marker of its own
\* instance: the last line the child had written when the function was
\* entered is that instance's marker, the markers written and the invocations
\* made correspond one to one in order (so no marker and no invocation falls
\* between a marker and its invocation), and no invocation lacks its marker.
C11_MarkerBeforeInvocation ==
    /\ Len(PlanMarkers) = Len(calls)
    /\ \A i \in 1..Len(calls) :
        /\ calls[i].at \in 1..Len(stdout)
        /\ stdout[calls[i].at] = MarkerLine(calls[i].node_key)
        /\ PlanMarkers[i] = MarkerLine(calls[i].node_key)
        /\ i > 1 => calls[i - 1].at < calls[i].at

\* C11 witness: three instances were invoked, the first of them printed a
\* line of its own and the second raised.
C11_Witness ==
    /\ Len(calls) = 3
    /\ calls[2].at > calls[1].at + 1
    /\ calls[2].raised

\* C12 as stated: when the plan has run to its end every instance id of the
\* layout, legacy-format nodes included, was invoked exactly once, in the
\* order the topological sort returned.
C12_AllInstancesInvoked ==
    cpc = "exited" =>
        /\ Len(sorted_nodes) = Cardinality(DOMAIN layout.nodes)
        /\ Range(sorted_nodes) = DOMAIN layout.nodes
        /\ [i \in 1..Len(calls) |-> calls[i].node_key] = sorted_nodes

\* ---------------------------------------------------- build(): vocabulary
\* The type an instance of the layout refers to.
TypeOf(k) ==
    LET nd == layout.nodes[k]
    IN IF "fqnn" \in DOMAIN nd THEN nd.fqnn
       ELSE nd.category \o <<".">> \o nd.function

\* The instances whose type the registry does not hold.
Unregistered == {k \in DOMAIN layout.nodes : TypeOf(k) \notin Range(registry)}

\* The first of them in the order in which the builder visits its nodes.
FirstUnregistered ==
    set_order[CHOOSE i \in 1..Len(set_order) :
                  /\ set_order[i] \in Unregistered
                  /\ \A j \in 1..(i - 1) : set_order[j] \notin Unregistered]

\* The connections of the layout the builder cannot file under a node: a
\* FLOW connection whose source, or a DATA connection whose target, is no node.
Unfiled ==
    {i \in 1..Len(layout.connections) :
        LET c == layout.connections[i]
        IN \/ c.ptype = FLOW /\ c.src \notin DOMAIN layout.nodes
           \/ c.ptype = DATA /\ c.tgt \notin DOMAIN layout.nodes}

\* build() has been called in this run.
Built == pc \notin {"idle", "build"}

\* What that call of build() gave.
BuildResult == build(layout, registry, set_order)

MissingDataIds ==
    {id \in IdPool :
        /\ id \notin DOMAIN layout.nodes
        /\ \E c \in Range(layout.connections) :
               c.ptype = DATA /\ id \in {c.src, c.tgt}}

\* C14 as stated: when a DATA connection names an instance id that is no node
\* of the layout, as its source or as its target, build() fails and its
\* message names a missing instance id (every type being registered, so that
\* no other failure of build() comes in between).
C14_MissingDataIdFails ==
    (Built /\ MissingDataIds # {} /\ Unregistered = {}) =>
        /\ BuildResult.status # "ok"
        /\ \E id \in IdPool \ DOMAIN layout.nodes :
               BuildResult.message = <<"'">> \o id \o <<"'">>

\* C15 as stated: after a successful build(), has_cycle() returns a boolean
\* and does not raise, also when a FLOW connection names a target that is no
\* node; and it returns true exactly when the control graph has a cycle.
C15_HasCycleNeverRaises ==
    (Built /\ BuildResult.status = "ok") =>
        LET c == has_cycle(graph_builder, set_order)
        IN /\ c.status \in {"True", "False"}
           /\ c.status = "True" <=> Cyclic(Edges(graph_builder.flow_graph))

\* C16 as stated: the order the sorter returns is a function of the vertex
\* set and the edges alone: whatever order the set all_nodes is iterated in,
\* in this run or in another, the call returns the list it has returned here.
C16_DeterministicOrder ==
    sort_out.status = "ok" =>
        \A order \in Perms(sort_in.all_nodes) :
            topological_sort(sort_in.flow_graph, sort_in.all_nodes, order).order
                = sort_out.order

\* C17 as stated: the import statements of the plan give distinct types
\* distinct aliases, and every invocation calls the function of the type of
\* its own instance.
C17_AliasDisambiguates ==
    /\ \A i, j \in 1..Len(script.imports) :
           i # j => script.imports[i].safe_name # script.imports[j].safe_name
    /\ \A i \in 1..Len(calls) : calls[i].func = TypeOf(calls[i].node_key)

\* ------------------------------------------------- discover(): vocabulary
\* The places <<stem, number>> of the node files as they are now that hold a
\* top-level function definition bearing the tag, bare or namespace-qualified.
TaggedPlaces ==
    UNION {{<<s, i>> : i \in {j \in 1..Len(files[s].body) :
                                /\ files[s].body[j].kind = "FunctionDef"
                                /\ files[s].body[j].decorator # "none"}} :
           s \in {t \in DOMAIN files : files[t].text = "ok"}}

\* The fully-qualified name of the function at a place.
NameAt(p) == p[1] \o <<".">> \o files[p[1]].body[p[2]].name

\* The place is the last one of its name in its file.
LastOfName(p) ==
    \A q \in TaggedPlaces : (q[1] = p[1] /\ NameAt(q) = NameAt(p)) => q[2] <= p[2]

\* C18: after a discover() that returned, the node files being unchanged
\* since, the catalog holds one entry for each tagged function of the files
\* and no other entry, each entry describing the function's last definition;
\* and another discover(), whatever order the files come in, returns with
\* the same set of entries.
C18_DiscoverExact ==
    discovered = "ok" =>
        /\ {catalog[i].fqnn : i \in 1..Len(catalog)} = {NameAt(p) : p \in TaggedPlaces}
        /\ \A i, j \in 1..Len(catalog) : catalog[i].fqnn = catalog[j].fqnn => i = j
        /\ \A i \in 1..Len(catalog) :
               \E p \in TaggedPlaces :
                   /\ LastOfName(p)
                   /\ catalog[i] = [fqnn |-> NameAt(p), category |-> p[1],
                                    function_name |-> files[p[1]].body[p[2]].name,
                                    lineno |-> p[2]]
        /\ \A order \in Perms(DOMAIN files) :
               LET again == discover(files, order, catalog)
               IN again.status = "ok" /\ Range(again.nodes) = Range(catalog)

\* C18 witness: a discover() has returned with a catalog of several entries
\* from two files, and the catalog it started from held an entry that the
\* files no longer have.
C18_Witness ==
    /\ discovered = "ok"
    /\ Len(catalog) >= 2
    /\ Cardinality({catalog[i].category : i \in 1..Len(catalog)}) = 2
    /\ \E i \in 1..Len(prior) : prior[i].fqnn \notin Range(Keys(catalog))

\* C19 as stated: extract_nodes_from_file fails with a parse error on a file
\* that does not parse and does not return an empty mapping for it.
C19_ParseErrorRaised ==
    discovered # "none" =>
        \A i \in 1..Len(extracted) :
            files[extracted[i].category].text = "syntax"
            => extracted[i].status \notin {"ok"}

\* ---------------------------------------------------- layout: vocabulary
\* How many nodes of a type a scene holds.
TypeCount(sc, t) == Cardinality({i \in 1..Len(sc.items) : sc.items[i].fqnn = t})

\* A connection of a scene, by the types of its ends, its port types and
\* its directions.
EdgeOf(c) ==
    [source |-> c.source_port.parent_node.fqnn,
     source_port_type |-> c.source_port.port_type,
     source_port_direction |-> c.source_port.port_direction,
     target |-> c.target_port.parent_node.fqnn,
     target_port_type |-> c.target_port.port_type,
     target_port_direction |-> c.target_port.port_direction]

\* C20 as stated: when a scene was saved and then reloaded, the scene holds
\* as many nodes of each type as the scene that was saved, and the same
\* connections with the same port types and directions.
C20_LayoutRoundTrip ==
    layout_out.op = "reload" =>
        /\ \A t \in Range(registry) \cup {<<"m">>} :
               TypeCount(scene, t) = TypeCount(saved_scene, t)
        /\ Len(scene.items) = Len(saved_scene.items)
        /\ Len(scene.connections) = Len(saved_scene.connections)
        /\ {EdgeOf(scene.connections[i]) : i \in 1..Len(scene.connections)}
               = {EdgeOf(saved_scene.connections[i]) :
                      i \in 1..Len(saved_scene.connections)}

\* ------------------------------------------------- the graphs build() leaves
\* C21: after a successful build() the control graph and the data graph have
\* the same vertex set (their keys), which is the set of instance ids of the
\* layout's nodes: no connection has put a vertex into one graph only.
C21_SameVertexSet ==
    (Built /\ BuildResult.status = "ok") =>
        /\ graph_builder.all_nodes = DOMAIN layout.nodes
        /\ DOMAIN graph_builder.flow_graph = graph_builder.all_nodes
        /\ DOMAIN graph_builder.data_graph = graph_builder.all_nodes

\* build() returned on a layout of two nodes or more with a FLOW and a DATA
\* connection.
C21_Witness ==
    /\ Built
    /\ BuildResult.status = "ok"
    /\ Cardinality(DOMAIN layout.nodes) >= 2
    /\ \E i, j \in DOMAIN layout.connections :
           /\ layout.connections[i].ptype = FLOW
           /\ layout.connections[j].ptype = DATA

\* The connections of the layout of port type t that leave (end = "src") or
\* enter (end = "tgt") node n, in the layout's order.
ConnsAt(t, end, n) ==
    SelectSeq(layout.connections,
              LAMBDA c : c.ptype = t /\ (IF end = "src" THEN c.src ELSE c.tgt) = n)

\* C22: build() splits the connections by port type.  The control graph
\* lists under each node the targets of exactly the FLOW connections leaving
\* it, the data graph lists under each node the (source, output key) pairs of
\* exactly the DATA connections entering it: no connection is in both graphs
\* and none is lost.
C22_SplitByPortType ==
    (Built /\ BuildResult.status = "ok") =>
        \A n \in DOMAIN layout.nodes :
            /\ graph_builder.flow_graph[n] =
                   [i \in 1..Len(ConnsAt(FLOW, "src", n)) |->
                       ConnsAt(FLOW, "src", n)[i].tgt]
            /\ graph_builder.data_graph[n] =
                   [i \in 1..Len(ConnsAt(DATA, "tgt", n)) |->
                       <<ConnsAt(DATA, "tgt", n)[i].src, "output_data">>]

\* build() returned on a layout with a FLOW and a DATA connection between
\* the same two nodes.
C22_Witness ==
    /\ Built
    /\ BuildResult.status = "ok"
    /\ \E i, j \in DOMAIN layout.connections :
           /\ layout.connections[i].ptype = FLOW
           /\ layout.connections[j].ptype = DATA
           /\ layout.connections[i].src = layout.connections[j].src
           /\ layout.connections[i].tgt = layout.connections[j].tgt
           /\ layout.connections[i].tgt \in DOMAIN layout.nodes

\* The nodes of the builder that no control edge enters.
NoPredecessor ==
    {n \in graph_builder.all_nodes :
        \A m \in DOMAIN graph_builder.flow_graph :
            \A i \in DOMAIN graph_builder.flow_graph[m] :
                graph_builder.flow_graph[m][i] # n}

\* The builder's last build() returned and get_entry_nodes() has been
\* called since.
EntryAnswered ==
    /\ build_out # <<>>
    /\ build_out[Len(build_out)].status = "ok"
    /\ entry_out.status # "none"

\* C23: the list get_entry_nodes() returns holds exactly the vertices of the
\* control graph that have in-degree zero, each of them once: every vertex
\* returned has no control predecessor, and every vertex without a control
\* predecessor is returned.
C23_EntryNodesExact ==
    (EntryAnswered /\ entry_out.status = "ok") =>
        /\ Range(entry_out.nodes) = NoPredecessor
        /\ Len(entry_out.nodes) = Cardinality(NoPredecessor)

\* get_entry_nodes() returned on a built graph in which some vertex has a
\* control predecessor and some has none.
C23_Witness ==
    /\ EntryAnswered
    /\ entry_out.status = "ok"
    /\ NoPredecessor # {}
    /\ NoPredecessor # graph_builder.all_nodes

\* C25: build() called again on the same GraphBuilder, the layout unchanged,
\* leaves graphs equal to those of the first call: a call that returned is
\* followed only by calls that return with the same all_nodes, flow_graph and
\* data_graph, no edge being listed once more.
C25_RebuildSame ==
    \A i, j \in DOMAIN build_out :
        (i < j /\ build_out[i].status = "ok") => build_out[j] = build_out[i]

\* build() has returned twice on a layout with a FLOW and a DATA connection.
C25_Witness ==
    /\ Len(build_out) >= 2
    /\ build_out[1].status = "ok"
    /\ build_out[2].status = "ok"
    /\ \E i, j \in DOMAIN layout.connections :
           /\ layout.connections[i].ptype = FLOW
           /\ layout.connections[j].ptype = DATA

\* C24 as stated: when the node function of an instance A fails, every
\* instance B that has A as data-predecessor and is invoked after it still
\* runs, and is handed an empty mapping under the key of A's fully-qualified
\* name, whatever other instances the layout holds.
C24_FailedInputEmpty ==
    /\ cpc = "exited" => Len(calls) = Len(script.node_code)
    /\ \A j \in 1..Len(calls) : \A i \in 1..(j - 1) :
        (DataPredecessor(calls[i].node_key, calls[j].node_key) /\ calls[i].raised)
        => LET key == layout.nodes[calls[i].node_key].fqnn
           IN /\ key \in DOMAIN calls[j].inputs
              /\ calls[j].inputs[key] = <<>>

HasParallelEdges ==
    \E n \in DOMAIN sort_in.flow_graph :
        \E i, j \in DOMAIN sort_in.flow_graph[n] :
            i < j /\ sort_in.flow_graph[n][i] = sort_in.flow_graph[n][j]

\* The graph handed to the sorter has a vertex that is its own successor.
HasSelfLoop ==
    \E n \in DOMAIN sort_in.flow_graph :
        \E i \in DOMAIN sort_in.flow_graph[n] : sort_in.flow_graph[n][i] = n

\* C27: for every control graph whose edges stay within all_nodes, parallel
\* duplicate edges and self-loops included, a sorter that returns lists no
\* vertex more than once, and a vertex with a self-loop makes the sorter fail
\* with the cycle error.
C27_NoVertexTwice ==
    (sort_out.status # "none"
        /\ \A e \in Edges(sort_in.flow_graph) : e[2] \in sort_in.all_nodes) =>
        /\ sort_out.status = "ok" =>
               \A i, j \in DOMAIN sort_out.order :
                   i # j => sort_out.order[i] # sort_out.order[j]
        /\ HasSelfLoop =>
               /\ sort_out.status = "ValueError"
               /\ sort_out.message = <<"Cycle detected in FLOW graph.">>

\* The sorter has returned on a graph within all_nodes that has parallel
\* edges.
C27_Witness ==
    /\ sort_out.status = "ok"
    /\ HasParallelEdges
    /\ Len(sort_out.order) >= 2

\* The status event that announces the execution: "Executing N nodes...".
AnnouncesExecution(e) ==
    e.sig = "status" /\ e.text # <<>> /\ e.text[1] = "Executing "

\* C28: within one run() the events are ordered.  The first event is the
\* status event announcing the build; an output or active-node event comes
\* only after the status event announcing the execution; the terminal event
\* is the last event of the run, nothing being emitted after it.
C28_EventOrder ==
    /\ events # <<>> => events[1] = Status(<<"Building execution graph...">>)
    /\ \A i \in DOMAIN events :
           events[i].sig \in {"output", "active"} =>
               \E j \in 1..(i - 1) : AnnouncesExecution(events[j])
    /\ \A i \in DOMAIN events : events[i].sig = "finished" => i = Len(events)

\* A run has ended after output and active-node events were emitted.
C28_Witness ==
    /\ pc = "done"
    /\ events[Len(events)].sig = "finished"
    /\ \E i, j \in DOMAIN events :
           events[i].sig = "output" /\ events[j].sig = "active"

\* ------------------------------------------------------- runs in flight
\* The runs that have not emitted their terminal event yet.
InFlight == {i \in DOMAIN threads : threads[i] = "running"}

\* C29 as stated: at most one workflow run is in flight at a time, and the
\* executor reference is cleared only by the run it refers to: as long as the
\* run started last has not been handled as finished, self.executor is that
\* run.
C29_OneRunInFlight ==
    /\ Cardinality(InFlight) <= 1
    /\ (threads # <<>> /\ threads[Len(threads)] # "handled") =>
           window.executor = Len(threads)

\* --------------------------------------------------- the canvas's connections
\* C30: after any sequence of canvas operations no connection of
\* scene.connections dangles (both its endpoint nodes are items of the
\* scene), and no press of Delete ends in an error.
C30_NoDanglingConnection ==
    /\ \A i \in DOMAIN scene.connections :
           /\ scene.connections[i].source_port.parent_node \in Range(scene.items)
           /\ scene.connections[i].target_port.parent_node \in Range(scene.items)
    /\ layout_out.op = "delete" => layout_out.status = "ok"

\* The scene holds a connection: the case C30 is about.
C30_SceneHasConnection == scene.connections # <<>>

====
